---- MODULE Spec2Model ----
(***************************************************************************)
(* memo: memoization of external commands.                                *)
(*                                                                         *)
(* The cache root is a directory shared by independent processes.  Two    *)
(* coordinators are modelled over it:                                      *)
(*   "atomic" - the atomic-publish protocol of src/cache.rs (staging       *)
(*              directory, rename into <digest>/, orphan sweep);          *)
(*   "lock"   - the coordinator of src/main.rs (per-digest lock marker,    *)
(*              purge, write in place).                                    *)
(* Both use memo_complete, the replay functions of src/cache.rs and        *)
(* execute_and_stream of src/executor.rs.                                  *)
(***************************************************************************)
EXTENDS Integers, Sequences, FiniteSets, TLC

VARIABLES
    protocol,   \* "atomic" or "lock": the coordinator variant in use
    root,       \* the cache root: directory name -> [files, modified]
    locks,      \* digests whose lock marker exists (lock protocol)
    now,        \* wall clock, in seconds
    proc,       \* per process: position and local variables of run()
    wins,       \* per digest: how many commit_cache_dir calls returned Ok(true)
    env,        \* [faults, started]: environment failures and crashes so far,
                \* invocations started so far
    cap         \* one capture by execute_and_stream seen chunk by chunk: the
                \* child, its two pipes and the copy loops

vars == <<protocol, root, locks, now, proc, wins, env, cap>>

(***************************************************************************)
(* Bounds                                                                  *)
(***************************************************************************)
NumProcs == 2
MaxTicks == 2
MaxFaults == 1
MaxInvocations == 2
MaxArgs == 3
MaxWrites == 3
PipeCap == 1
MaxChunkFaults == 2
MaxRoundTripArgs == 2

Procs == 1..NumProcs

(***************************************************************************)
(* Program constants                                                       *)
(***************************************************************************)
CLEANUP_AGE_SECS == 86400
LOCK_WAIT_TIMEOUT_SECS == 2

(***************************************************************************)
(* Digest engine (src/digest.rs)                                           *)
(***************************************************************************)
\* serde_json's escaping of one character of a string
JsonEscape(c) ==
    IF c = "\"" THEN <<"\\", "\"">>
    ELSE IF c = "\\" THEN <<"\\", "\\">>
    ELSE IF c = "\n" THEN <<"\\", "n">>
    ELSE <<c>>

RECURSIVE JsonChars(_)
JsonChars(s) ==
    IF s = <<>> THEN <<>> ELSE JsonEscape(Head(s)) \o JsonChars(Tail(s))

\* serde_json::to_vec(&str): the quoted, escaped string
JsonString(s) == <<"\"">> \o JsonChars(s) \o <<"\"">>

RECURSIVE JsonItems(_)
JsonItems(args) ==
    IF args = <<>> THEN <<>>
    ELSE IF Len(args) = 1 THEN JsonString(args[1])
    ELSE JsonString(Head(args)) \o <<",">> \o JsonItems(Tail(args))

\* serde_json::to_vec(&[String]): a JSON array of strings
JsonArray(args) == <<"[">> \o JsonItems(args) \o <<"]">>

\* SHA-256 rendered as hex, idealised as collision free: the digest stands
\* for the byte string that was hashed.
Sha256Hex(bytes) == [sha256 |-> bytes]

\* A key made from the words joined by spaces, followed by the directory.
RECURSIVE JoinWords(_)
JoinWords(args) ==
    IF args = <<>> THEN <<>>
    ELSE IF Len(args) = 1 THEN args[1]
    ELSE Head(args) \o <<" ">> \o JoinWords(Tail(args))

compute_digest_joined(args, cwd) == Sha256Hex(JoinWords(args) \o cwd)

compute_digest_for_args(args, cwd) ==
    Sha256Hex(JsonArray(args) \o JsonString(cwd))

(***************************************************************************)
(* Invocations and child behaviours drawn on by the processes              *)
(***************************************************************************)
Invocations ==
    { [cmd |-> << <<"e">>, <<"a">> >>, cwd |-> <<"/">>],
      [cmd |-> << <<"e">>, <<"b">> >>, cwd |-> <<"/">>] }

DigestOf(i) == compute_digest_for_args(i.cmd, i.cwd)
Digests == { DigestOf(i) : i \in Invocations }
NoDigest == [sha256 |-> <<>>]

\* What one execution of the command produces: the chunks it writes to
\* stdout and stderr and its exit code.  A command need not be
\* deterministic, so every run of it chooses among these.
ChildRuns ==
    { [out |-> <<1>>, err |-> <<>>, code |-> 0],
      [out |-> <<2, 3>>, err |-> <<4>>, code |-> 5] }
NoRun == [out |-> <<>>, err |-> <<>>, code |-> 0]

(***************************************************************************)
(* Files and directories                                                   *)
(***************************************************************************)
NoFile == [exists |-> FALSE, data |-> <<>>]
File(data) == [exists |-> TRUE, data |-> data]
EmptyDir == [meta |-> NoFile, stdout |-> NoFile, stderr |-> NoFile]

\* One place for the entries of all digests.
DigestNameShared(d) == [stem |-> NoDigest, tag |-> "", pid |-> 0, ts |-> 0]

\* cache_dir.join(digest)
DigestName(d) == [stem |-> d, tag |-> "", pid |-> 0, ts |-> 0]
\* format!("{}.tmp.{}.{}", digest, pid, timestamp)
TempName(d, pid, ts) == [stem |-> d, tag |-> ".tmp.", pid |-> pid, ts |-> ts]
NoTemp == [stem |-> NoDigest, tag |-> "", pid |-> 0, ts |-> 0]

Exists(r, name) == name \in DOMAIN r
IsEmptyDir(dir) ==
    ~dir.meta.exists /\ ~dir.stdout.exists /\ ~dir.stderr.exists

\* A directory of the cache root: its three possible files, its modification
\* time, whether the entry is a directory at all (is_dir) and whether its
\* metadata can be read (stat_ok).
Dir(files, t) == [files |-> files, modified |-> t, is_dir |-> TRUE, stat_ok |-> TRUE]

Without(r, name) == [n \in DOMAIN r \ {name} |-> r[n]]
With(r, name, d) == [n \in DOMAIN r \cup {name} |-> IF n = name THEN d ELSE r[n]]

(***************************************************************************)
(* Cache store (src/cache.rs)                                              *)
(***************************************************************************)
\* The values of MEMO_DISABLE the processes are started with; an unset
\* variable behaves like "0" (unwrap_or(false)).
MemoDisableValues == {"0", "1"}

\* A kill switch that is compared with "true".
is_memo_disabled_true(val) == val = "true"

\* is_memo_disabled: MEMO_DISABLE is set and equals "1"
is_memo_disabled(val) == val = "1"

\* A completeness test that looks for the three files under a staging name
\* instead of <digest>/.
memo_complete_misplaced(r, d) ==
    /\ Exists(r, TempName(d, 0, 0))
    /\ r[TempName(d, 0, 0)].files.meta.exists
    /\ r[TempName(d, 0, 0)].files.stdout.exists
    /\ r[TempName(d, 0, 0)].files.stderr.exists

\* A completeness test that is satisfied by any one of the three files.
memo_complete_any(r, d) ==
    /\ Exists(r, DigestName(d))
    /\ \/ r[DigestName(d)].files.meta.exists
       \/ r[DigestName(d)].files.stdout.exists
       \/ r[DigestName(d)].files.stderr.exists

\* memo_complete: <digest>/meta.json, <digest>/stdout and <digest>/stderr exist
memo_complete(r, d) ==
    /\ Exists(r, DigestName(d))
    /\ r[DigestName(d)].files.meta.exists
    /\ r[DigestName(d)].files.stdout.exists
    /\ r[DigestName(d)].files.stderr.exists

\* A creation that succeeds when the directory is already there.
fs_create_dir_all(r, name, t, envOk) ==
    IF ~envOk THEN [kind |-> "Other", root |-> r]
    ELSE IF Exists(r, name) THEN [kind |-> "Ok", root |-> r]
    ELSE [kind |-> "Ok", root |-> With(r, name, Dir(EmptyDir, t))]

\* fs::create_dir: the outcomes of creating directory `name` at time t.
\* envOk = FALSE stands for an I/O failure of the file system.
fs_create_dir(r, name, t, envOk) ==
    IF ~envOk THEN [kind |-> "Other", root |-> r]
    ELSE IF Exists(r, name) THEN [kind |-> "AlreadyExists", root |-> r]
    ELSE [kind |-> "Ok", root |-> With(r, name, Dir(EmptyDir, t))]

\* A buffer that is created at the addressable place itself.
create_in_place(r, d, pid, t, envOk) ==
    LET made == fs_create_dir(r, DigestName(d), t, envOk)
    IN  [kind |-> made.kind, root |-> made.root,
         path |-> IF made.kind = "Ok" THEN DigestName(d) ELSE NoTemp]

\* create_temp_cache_dir: <digest>.tmp.<pid>.<timestamp>, not committed
create_temp_cache_dir(r, d, pid, t, envOk) ==
    LET made == fs_create_dir(r, TempName(d, pid, t), t, envOk)
    IN  [kind |-> made.kind, root |-> made.root,
         path |-> IF made.kind = "Ok" THEN TempName(d, pid, t) ELSE NoTemp]

\* The error kinds rename(2) may report for a destination that is a
\* non-empty directory: ENOTEMPTY (DirectoryNotEmpty) or EEXIST
\* (AlreadyExists), as the platform chooses.
NonEmptyDestKinds == {"DirectoryNotEmpty", "AlreadyExists"}

\* A move that replaces whatever the destination holds.
fs_rename_replace(r, src, dst) ==
    IF ~Exists(r, src) THEN {[kind |-> "NotFound", root |-> r]}
    ELSE {[kind |-> "Ok", root |-> With(Without(r, src), dst, r[src])]}

\* fs::rename of directory src to dst: the set of possible outcomes.  The
\* move is one step; an existing empty directory is replaced, a non-empty
\* one makes the call fail, a missing source makes it fail.
fs_rename(r, src, dst) ==
    IF ~Exists(r, src) THEN {[kind |-> "NotFound", root |-> r]}
    ELSE IF Exists(r, dst) /\ ~IsEmptyDir(r[dst].files)
         THEN {[kind |-> k, root |-> r] : k \in NonEmptyDestKinds}
    ELSE {[kind |-> "Ok", root |-> With(Without(r, src), dst, r[src])]}

\* A commit that performs the rename and leaves the buffer unmarked.
commit_cache_dir_unmarked(r, path, d) ==
    { [ret |-> IF o.kind = "Ok" THEN "true"
               ELSE IF o.kind = "AlreadyExists" THEN "false"
               ELSE "err",
       kind |-> o.kind,
       committed |-> FALSE,
       root |-> o.root] : o \in fs_rename(r, path, DigestName(d)) }

\* commit_cache_dir: Ok(true) when the rename was performed, Ok(false) when
\* it failed with AlreadyExists, Err(e) for every other failure.
commit_cache_dir(r, path, d) ==
    { [ret |-> IF o.kind = "Ok" THEN "true"
               ELSE IF o.kind = "AlreadyExists" THEN "false"
               ELSE "err",
       kind |-> o.kind,
       committed |-> (o.kind = "Ok"),
       root |-> o.root] : o \in fs_rename(r, path, DigestName(d)) }

\* A drop that removes with remove_dir, which fails on a directory that
\* holds files.
drop_remove_dir(r, path, committed) ==
    IF ~committed /\ Exists(r, path) /\ IsEmptyDir(r[path].files)
    THEN Without(r, path) ELSE r

\* Drop for TempCacheDir: remove_dir_all(path) unless committed
drop_temp(r, path, committed) ==
    IF ~committed /\ Exists(r, path) THEN Without(r, path) ELSE r

\* A sweep that removes with remove_dir, which fails on a directory that
\* holds files.
cleanup_remove_dir(r, t) ==
    LET cutoff == t - CLEANUP_AGE_SECS
        swept == { n \in DOMAIN r :
                     /\ r[n].is_dir /\ n.tag = ".tmp." /\ r[n].stat_ok
                     /\ r[n].modified < cutoff /\ IsEmptyDir(r[n].files) }
    IN  [n \in DOMAIN r \ swept |-> r[n]]

\* A sweep that goes by age alone, whatever the name.
cleanup_any_name(r, t) ==
    LET cutoff == t - CLEANUP_AGE_SECS
        swept == { n \in DOMAIN r :
                     /\ r[n].is_dir /\ r[n].stat_ok /\ r[n].modified < cutoff }
    IN  [n \in DOMAIN r \ swept |-> r[n]]

\* A sweep that also removes what was modified exactly at the cutoff.
cleanup_at_cutoff(r, t) ==
    LET cutoff == t - CLEANUP_AGE_SECS
        swept == { n \in DOMAIN r :
                     /\ r[n].is_dir /\ n.tag = ".tmp." /\ r[n].stat_ok
                     /\ r[n].modified <= cutoff }
    IN  [n \in DOMAIN r \ swept |-> r[n]]

\* cleanup_temp_dirs: every entry that is a directory, whose name contains
\* ".tmp.", whose metadata and modification time can be read and whose
\* modification time is before now - 24h is removed (a failure to remove is
\* ignored); everything else is skipped.
cleanup_temp_dirs(r, t) ==
    LET cutoff == t - CLEANUP_AGE_SECS
        swept == { n \in DOMAIN r :
                     /\ r[n].is_dir /\ n.tag = ".tmp." /\ r[n].stat_ok
                     /\ r[n].modified < cutoff }
    IN  [n \in DOMAIN r \ swept |-> r[n]]

\* A record that says the command succeeded whatever its exit code was.
MemoExitZero(cmd, cwd, exit_code, timestamp, digest) ==
    [cmd |-> cmd, cwd |-> cwd, exit_code |-> 0,
     timestamp |-> timestamp, digest |-> digest]

(***************************************************************************)
(* Metadata record (src/memo.rs) and its JSON form                         *)
(***************************************************************************)
Memo(cmd, cwd, exit_code, timestamp, digest) ==
    [cmd |-> cmd, cwd |-> cwd, exit_code |-> exit_code,
     timestamp |-> timestamp, digest |-> digest]
NoMemo == Memo(<<>>, <<>>, 0, 0, NoDigest)

\* serde_json::to_string_pretty(&memo): the object's fields in order
to_string_pretty(m) ==
    << <<"cmd", m.cmd>>, <<"cwd", m.cwd>>, <<"exit_code", m.exit_code>>,
       <<"timestamp", m.timestamp>>, <<"digest", m.digest>> >>

\* whether serde_json::from_str::<Memo> accepts the text
parses(text) ==
    /\ Len(text) = 5
    /\ text[1][1] = "cmd" /\ text[2][1] = "cwd" /\ text[3][1] = "exit_code"
    /\ text[4][1] = "timestamp" /\ text[5][1] = "digest"

from_str(text) ==
    Memo(text[1][2], text[2][2], text[3][2], text[4][2], text[5][2])

\* The JSON text of the record with the text of every value spelled out
\* character by character: strings quoted and escaped, the exit code (i32)
\* in decimal with its sign.  The framing of the object (braces, keys,
\* indentation) is kept as the list of its fields in order.
DigitChars == <<"0", "1", "2", "3", "4", "5", "6", "7", "8", "9">>

RECURSIVE JsonNat(_)
JsonNat(n) ==
    IF n < 10 THEN <<DigitChars[n + 1]>>
    ELSE JsonNat(n \div 10) \o <<DigitChars[(n % 10) + 1]>>

\* A number written as an unsigned byte.
JsonIntByte(n) == JsonNat(n % 256)

JsonInt(n) == IF n < 0 THEN <<"-">> \o JsonNat(0 - n) ELSE JsonNat(n)

serde_to_string_pretty(m) ==
    << <<"cmd", JsonArray(m.cmd)>>, <<"cwd", JsonString(m.cwd)>>,
       <<"exit_code", JsonInt(m.exit_code)>>,
       <<"timestamp", JsonString(m.timestamp)>>,
       <<"digest", JsonString(m.digest.sha256)>> >>

\* serde_json's reading of a string, a number and an array of strings
RECURSIVE JsonUnescape(_)
JsonUnescape(s) ==
    IF s = <<>> THEN <<>>
    ELSE IF Head(s) = "\\"
    THEN <<IF s[2] = "n" THEN "\n" ELSE s[2]>> \o JsonUnescape(Tail(Tail(s)))
    ELSE <<Head(s)>> \o JsonUnescape(Tail(s))

ParseJsonString(t) == JsonUnescape(SubSeq(t, 2, Len(t) - 1))

DigitValue(c) == CHOOSE d \in 0..9 : DigitChars[d + 1] = c

RECURSIVE ParseNat(_, _)
ParseNat(s, acc) ==
    IF s = <<>> THEN acc ELSE ParseNat(Tail(s), acc * 10 + DigitValue(Head(s)))

ParseJsonInt(t) == IF Head(t) = "-" THEN 0 - ParseNat(Tail(t), 0) ELSE ParseNat(t, 0)

\* the texts of the items of an array body: commas separate items only
\* outside strings, and an escaped character never ends a string
RECURSIVE JsonSplit(_, _, _, _)
JsonSplit(s, cur, inStr, esc) ==
    IF s = <<>> THEN (IF cur = <<>> THEN <<>> ELSE <<cur>>)
    ELSE LET c == Head(s) IN
         IF esc THEN JsonSplit(Tail(s), Append(cur, c), inStr, FALSE)
         ELSE IF inStr /\ c = "\\" THEN JsonSplit(Tail(s), Append(cur, c), TRUE, TRUE)
         ELSE IF c = "\"" THEN JsonSplit(Tail(s), Append(cur, c), ~inStr, FALSE)
         ELSE IF c = "," /\ ~inStr THEN <<cur>> \o JsonSplit(Tail(s), <<>>, FALSE, FALSE)
         ELSE JsonSplit(Tail(s), Append(cur, c), inStr, FALSE)

ParseJsonArray(t) ==
    LET items == JsonSplit(SubSeq(t, 2, Len(t) - 1), <<>>, FALSE, FALSE)
    IN  [i \in 1..Len(items) |-> ParseJsonString(items[i])]

serde_from_str(text) ==
    Memo(ParseJsonArray(text[1][2]), ParseJsonString(text[2][2]),
         ParseJsonInt(text[3][2]), ParseJsonString(text[4][2]),
         [sha256 |-> ParseJsonString(text[5][2])])

\* write_memo: the digest directory is made if need be, then the three files
\* are written in full (cache.rs:271-290)
write_memo(r, d, memo, stdout, stderr, t) ==
    With(r, DigestName(d),
         Dir([meta |-> File(serde_to_string_pretty(memo)),
              stdout |-> File(stdout), stderr |-> File(stderr)], t))

\* read_memo: the metadata parsed, the two files read in full; an error when
\* a file is missing (cache.rs:292-303)
read_memo(r, d) ==
    IF Exists(r, DigestName(d)) /\ r[DigestName(d)].files.meta.exists
       /\ r[DigestName(d)].files.stdout.exists /\ r[DigestName(d)].files.stderr.exists
    THEN [ok |-> TRUE, memo |-> serde_from_str(r[DigestName(d)].files.meta.data),
          stdout |-> r[DigestName(d)].files.stdout.data,
          stderr |-> r[DigestName(d)].files.stderr.data]
    ELSE [ok |-> FALSE, memo |-> NoMemo, stdout |-> <<>>, stderr |-> <<>>]

\* read_memo_metadata: Ok(memo), or an error when the file is missing or
\* does not hold a JSON record
read_memo_metadata(r, d) ==
    IF Exists(r, DigestName(d)) /\ r[DigestName(d)].files.meta.exists
       /\ parses(r[DigestName(d)].files.meta.data)
    THEN [ok |-> TRUE, memo |-> from_str(r[DigestName(d)].files.meta.data)]
    ELSE [ok |-> FALSE, memo |-> NoMemo]

\* A replay of stdout that opens the stderr file.
stream_wrong_file(r, d, writer) == writer \o r[DigestName(d)].files.stderr.data

\* stream_stdout / stream_stderr: the whole file is copied to the writer
stream_stdout(r, d, writer) == writer \o r[DigestName(d)].files.stdout.data
stream_stderr(r, d, writer) == writer \o r[DigestName(d)].files.stderr.data

(***************************************************************************)
(* Output capture (src/executor.rs)                                        *)
(***************************************************************************)
\* create_secure_file: create_new(true) in directory `name`; fails when the
\* directory is missing, the file exists already, or on an I/O failure.
\* Creating an entry updates the directory's modification time.
CanCreate(r, name, f, envOk) ==
    envOk /\ Exists(r, name) /\ ~r[name].files[f].exists

create_secure_file(r, name, f, t) ==
    With(r, name, [r[name] EXCEPT !.files[f] = File(<<>>), !.modified = t])

\* write to an open file: lands in the file when it is still linked
write_file(r, name, f, data) ==
    IF Exists(r, name) /\ r[name].files[f].exists
    THEN With(r, name, [r[name] EXCEPT !.files[f].data = @ \o data])
    ELSE r

\* TeeWriter::write for one chunk: the file write is tried first, the
\* console write always follows; a file failure is only recorded.
TeeWrite(tee, chunk, fileOk) ==
    [file |-> IF fileOk THEN tee.file \o <<chunk>> ELSE tee.file,
     console |-> tee.console \o <<chunk>>,
     error |-> tee.error \/ ~fileOk]

\* TeeWriter::write when the console write may fail too: the state of the
\* writer afterwards; the call returns Err exactly when the console failed
\* (stored = the chunk whose file error is kept in self.error, 0 for none).
\* A writer that returns on the file error, before the console write:
TeeWriterWriteFileFirst(tee, chunk, fileOk, consoleOk) ==
    [file |-> IF fileOk THEN tee.file \o <<chunk>> ELSE tee.file,
     console |-> IF fileOk /\ consoleOk THEN tee.console \o <<chunk>> ELSE tee.console,
     error |-> tee.error \/ ~fileOk,
     stored |-> IF ~fileOk /\ ~tee.error THEN chunk ELSE tee.stored]

TeeWriterWrite(tee, chunk, fileOk, consoleOk) ==
    [file |-> IF fileOk THEN tee.file \o <<chunk>> ELSE tee.file,
     console |-> IF consoleOk THEN tee.console \o <<chunk>> ELSE tee.console,
     error |-> tee.error \/ ~fileOk,
     stored |-> IF ~fileOk /\ ~tee.error THEN chunk ELSE tee.stored]

\* io::copy(child pipe, tee): every chunk, in order; bad = the indices of
\* the chunks whose file write fails
RECURSIVE TeeCopy(_, _, _, _)
TeeCopy(tee, chunks, i, bad) ==
    IF i > Len(chunks) THEN tee
    ELSE TeeCopy(TeeWrite(tee, chunks[i], i \notin bad), chunks, i + 1, bad)

NewTee(console) == [file |-> <<>>, console |-> console, error |-> FALSE]

NoResult == [exit_code |-> 0, stdout_error |-> FALSE, stderr_error |-> FALSE]

(***************************************************************************)
(* One capture, chunk by chunk: the child writes to two pipes of finite    *)
(* capacity, execute_and_stream copies them through the tee writers         *)
(***************************************************************************)
\* The outcomes the environment may choose for an operation that can fail:
\* TRUE = it works; FALSE = an I/O failure, while the budget lasts.
EnvChoices == IF env.faults < MaxFaults THEN BOOLEAN ELSE {TRUE}
Faulted(n) == env' = [env EXCEPT !.faults = @ + n]

\* what a child does: a sequence of one-chunk writes, each to stdout or to
\* stderr, and then it exits
CapturePrograms == UNION { [1..n -> {"stdout", "stderr"}] : n \in 0..MaxWrites }

\* TeeWriter::new: nothing written, no error stored
NewTeeWriter == [file |-> <<>>, console |-> <<>>, error |-> FALSE, stored |-> 0]

Capture(prog) ==
    [phase |-> "copy_stdout",        \* where execute_and_stream and its caller are
     child |-> "running", prog |-> prog, written |-> 0,
     pipe |-> [stdout |-> <<>>, stderr |-> <<>>],
     tee |-> [stdout |-> NewTeeWriter, stderr |-> NewTeeWriter],
     file_failures |-> [stdout |-> 0, stderr |-> 0],  \* file writes that failed
     console_failed |-> FALSE,       \* a console write has failed
     returned |-> "none",            \* "Ok" or "Err" once execute_and_stream returned
     result |-> NoResult]

NoCapture == [Capture(<<>>) EXCEPT !.phase = "none", !.child = "none"]

Capturing == {"copy_stdout", "copy_stderr", "wait"}

\* what may go wrong with one chunk, while the budget lasts
ChunkFaults == IF env.faults < MaxChunkFaults THEN {"none", "file", "console"} ELSE {"none"}

\* the child writes its next chunk; the write blocks while the pipe is full
ChildWrite ==
    /\ cap.child = "running" /\ cap.prog # <<>>
    /\ LET fd == Head(cap.prog) IN
         /\ Len(cap.pipe[fd]) < PipeCap
         /\ cap' = [cap EXCEPT !.pipe[fd] = Append(@, cap.written + 1),
                               !.prog = Tail(@), !.written = @ + 1]
    /\ UNCHANGED <<protocol, root, locks, now, proc, wins, env>>

\* the child exits, which closes its ends of both pipes
ChildExit ==
    /\ cap.child = "running" /\ cap.prog = <<>>
    /\ cap' = [cap EXCEPT !.child = "exited"]
    /\ UNCHANGED <<protocol, root, locks, now, proc, wins, env>>

\* let _ = io::copy(pipe of fd, tee of fd): one turn of the loop.  A read
\* blocks while the pipe is empty and the child has it open; a chunk read is
\* written through the tee; the loop ends at end of file or with the first
\* Err from the tee, and its result is ignored.
io_copy(phase, fd, next) ==
    /\ cap.phase = phase
    /\ IF cap.pipe[fd] # <<>>
       THEN \E fault \in ChunkFaults :
              /\ Faulted(IF fault = "none" THEN 0 ELSE 1)
              /\ cap' = [cap EXCEPT
                            !.pipe[fd] = Tail(@),
                            !.tee[fd] = TeeWriterWrite(@, Head(cap.pipe[fd]),
                                                       fault # "file", fault # "console"),
                            !.file_failures[fd] = IF fault = "file" THEN @ + 1 ELSE @,
                            !.console_failed = @ \/ fault = "console",
                            !.phase = IF fault = "console" THEN next ELSE @]
       ELSE /\ cap.child = "exited"
            /\ cap' = [cap EXCEPT !.phase = next]
            /\ UNCHANGED env
    /\ UNCHANGED <<protocol, root, locks, now, proc, wins>>

CopyStdout == io_copy("copy_stdout", "stdout", "copy_stderr")

CopyStderr == io_copy("copy_stderr", "stderr", "wait")

\* child.wait()?, then the recorded file errors are collected and
\* Ok(ExecutionResult) is returned
WaitChild ==
    /\ cap.phase = "wait" /\ cap.child = "exited"
    /\ \E envOk \in EnvChoices :
         /\ Faulted(IF envOk THEN 0 ELSE 1)
         /\ cap' = [cap EXCEPT
                       !.phase = "returned",
                       !.returned = IF envOk THEN "Ok" ELSE "Err",
                       !.result = IF envOk
                                  THEN [exit_code |-> 0,
                                        stdout_error |-> cap.tee.stdout.error,
                                        stderr_error |-> cap.tee.stderr.error]
                                  ELSE @]
    /\ UNCHANGED <<protocol, root, locks, now, proc, wins>>

\* the caller: execute_and_stream(..)? and, on Ok, the metadata is written,
\* which makes the entry complete
AfterCapture ==
    /\ cap.phase = "returned"
    /\ cap' = [cap EXCEPT !.phase = IF cap.returned = "Ok" THEN "publish" ELSE "error"]
    /\ UNCHANGED <<protocol, root, locks, now, proc, wins, env>>

(***************************************************************************)
(* Coordinator: one invocation of run() per process                        *)
(***************************************************************************)
IdleProc ==
    [pc |-> "idle", cmd |-> <<>>, cwd |-> <<>>, digest |-> NoDigest,
     temp |-> NoTemp, committed |-> FALSE,   \* the TempCacheDir
     lock |-> FALSE, deadline |-> 0,         \* the lock guard, wait_deadline
     memo |-> NoMemo,                        \* metadata read for a replay
     result |-> NoResult,                    \* ExecutionResult
     ran |-> FALSE, child |-> NoRun,         \* what the child it ran produced
     out |-> <<>>, err |-> <<>>,             \* bytes put on its own stdout, stderr
     exit |-> 0, outcome |-> "none",         \* how the process ended
     report |-> "none",                      \* what it reported about publishing
     cache_fail |-> FALSE,                   \* a cache file could not be created or written
     late |-> FALSE,                         \* started when the entry was already whole
     memo_disable |-> "0",                   \* the value of MEMO_DISABLE it was started with
     sweeps |-> 0]                           \* cleanup_temp_dirs calls made by this invocation

\* The entry of d is there in full: the three files, the metadata written
Whole(r, d) ==
    /\ Exists(r, DigestName(d))
    /\ r[DigestName(d)].files.meta.exists
    /\ r[DigestName(d)].files.stdout.exists
    /\ r[DigestName(d)].files.stderr.exists
    /\ parses(r[DigestName(d)].files.meta.data)

Init ==
    /\ protocol \in {"atomic", "lock"}
    /\ root = <<>>
    /\ locks = {}
    /\ now = 0
    /\ proc = [p \in Procs |-> IdleProc]
    /\ wins = [d \in Digests |-> 0]
    /\ env = [faults |-> 0, started |-> 0]
    /\ cap = NoCapture

\* The directory the three files of process p's entry are written into: its
\* staging directory, or the addressable place itself under the lock protocol.
Target(p) ==
    IF protocol = "atomic" THEN proc[p].temp ELSE DigestName(proc[p].digest)

\* The lock guard is released when it goes out of scope
Released(p) == IF proc[p].lock THEN locks \ {proc[p].digest} ELSE locks

\* The process is gone: its locals no longer exist; what it wrote to its
\* console, its exit status and what it reported remain observable.
Gone(pr) ==
    [pr EXCEPT !.pc = "done", !.temp = NoTemp, !.committed = FALSE, !.lock = FALSE,
               !.deadline = 0, !.memo = NoMemo, !.result = NoResult]

\* process::exit(code) after the locals have been dropped
Exited(pr, code, outcome) ==
    [Gone(pr) EXCEPT !.exit = code, !.outcome = outcome]

\* An error return after which the process exits with status 0.
ErrorReturnExitZero(p, pr, r, outcome) ==
    /\ proc' = [proc EXCEPT ![p] = Exited(pr, 0, outcome)]
    /\ root' = drop_temp(r, proc[p].temp, proc[p].committed)
    /\ locks' = Released(p)

\* An error return that leaves the marker of the process in place.
ErrorReturnKeepsLock(p, pr, r, outcome) ==
    /\ proc' = [proc EXCEPT ![p] = Exited(pr, 1, outcome)]
    /\ root' = drop_temp(r, proc[p].temp, proc[p].committed)
    /\ locks' = locks

\* run() returns Err: main prints the error and exits with status 1; the
\* locals (lock guard, TempCacheDir) are dropped on the way out.
ErrorReturn(p, pr, r, outcome) ==
    /\ proc' = [proc EXCEPT ![p] = Exited(pr, 1, outcome)]
    /\ root' = drop_temp(r, proc[p].temp, proc[p].committed)
    /\ locks' = Released(p)

\* A setup failure that is not reported: the process goes on as if the
\* command had run and succeeded.
SetupErrorIgnored(pr) == Exited([pr EXCEPT !.ran = TRUE], 0, "setup_error")

\* get_cache_dir()? or ensure_cache_dir(..)? fails (main.rs:102-103): run()
\* returns Err before anything else is done, main exits with status 1
SetupError(pr) == Exited(pr, 1, "setup_error")

\* run() is entered by a new process, which may reuse the process id of one
\* that has ended: the arguments are parsed; unless memoization is disabled
\* the cache root is resolved and created (setupOk), then the digest computed
Start(p) ==
    /\ proc[p].pc \in {"idle", "done"}
    /\ env.started < MaxInvocations
    /\ \E i \in Invocations, val \in MemoDisableValues, setupOk \in EnvChoices :
         /\ is_memo_disabled(val) => setupOk
         /\ env' = [env EXCEPT !.started = @ + 1,
                               !.faults = IF setupOk THEN @ ELSE @ + 1]
         /\ proc' = [proc EXCEPT ![p] =
                    IF is_memo_disabled(val)
                    THEN [IdleProc EXCEPT !.pc = "bypass", !.cmd = i.cmd, !.cwd = i.cwd,
                                          !.memo_disable = val]
                    ELSE IF ~setupOk
                    THEN SetupError([IdleProc EXCEPT !.cmd = i.cmd, !.cwd = i.cwd,
                                                     !.memo_disable = val])
                    ELSE
                    [IdleProc EXCEPT !.pc = IF protocol = "atomic" THEN "sweep" ELSE "check",
                              !.cmd = i.cmd, !.cwd = i.cwd,
                              !.digest = compute_digest_for_args(i.cmd, i.cwd),
                              !.late = Whole(root, compute_digest_for_args(i.cmd, i.cwd)),
                              !.memo_disable = val]]
    /\ UNCHANGED <<protocol, cap, root, locks, now, wins>>

\* main.rs:87-99  memoization is disabled: the command is run directly, its
\* output goes straight to the console, and the process exits with its code
Bypass(p) ==
    /\ proc[p].pc = "bypass"
    /\ \E run \in ChildRuns, spawned \in EnvChoices :
         /\ Faulted(IF spawned THEN 0 ELSE 1)
         /\ IF spawned
            THEN /\ proc' = [proc EXCEPT ![p] =
                              Exited([@ EXCEPT !.ran = TRUE, !.child = run,
                                               !.out = @ \o run.out,
                                               !.err = @ \o run.err],
                                     run.code, "bypass")]
                 /\ UNCHANGED <<root, locks>>
            ELSE ErrorReturn(p, proc[p], root, "error")
    /\ UNCHANGED <<protocol, cap, now, wins>>

\* the orphan sweep at startup (atomic protocol)
Sweep(p) ==
    /\ proc[p].pc = "sweep"
    /\ root' = cleanup_temp_dirs(root, now)
    /\ proc' = [proc EXCEPT ![p].pc = "check", ![p].sweeps = @ + 1]
    /\ UNCHANGED <<protocol, cap, locks, now, wins, env>>

\* main.rs:113  if memo_complete(..) { replay } else { miss }
Check(p) ==
    /\ proc[p].pc = "check"
    /\ proc' = [proc EXCEPT ![p] =
                  [@ EXCEPT !.pc = IF memo_complete(root, proc[p].digest) THEN "hit_meta"
                                   ELSE IF protocol = "atomic" THEN "begin"
                                   ELSE "acquire",
                            !.deadline = IF protocol = "lock"
                                            /\ ~memo_complete(root, proc[p].digest)
                                         THEN now + LOCK_WAIT_TIMEOUT_SECS ELSE @]]
    /\ UNCHANGED <<protocol, cap, root, locks, now, wins, env>>

\* read_memo_metadata(..)?  (main.rs:120, 144, 194)
ReadMeta(p) ==
    /\ proc[p].pc = "hit_meta"
    /\ LET got == read_memo_metadata(root, proc[p].digest)
       IN  IF got.ok
           THEN /\ proc' = [proc EXCEPT ![p] =
                              [@ EXCEPT !.pc = "hit_stream", !.memo = got.memo]]
                /\ UNCHANGED <<root, locks>>
           ELSE ErrorReturn(p, proc[p], root, "error")
    /\ UNCHANGED <<protocol, cap, now, wins, env>>

\* stream_stdout, stream_stderr, drop(lock), process::exit(memo.exit_code)
Replay(p) ==
    /\ proc[p].pc = "hit_stream"
    /\ proc' = [proc EXCEPT ![p] =
                  Exited([@ EXCEPT !.out = stream_stdout(root, proc[p].digest, @),
                                   !.err = stream_stderr(root, proc[p].digest, @)],
                         proc[p].memo.exit_code, "hit")]
    /\ locks' = Released(p)
    /\ UNCHANGED <<protocol, cap, root, now, wins, env>>

\* begin_write: create_temp_cache_dir(..)?  (atomic protocol)
Begin(p) ==
    /\ proc[p].pc = "begin"
    /\ \E envOk \in EnvChoices :
         LET made == create_temp_cache_dir(root, proc[p].digest, p, now, envOk)
         IN  /\ Faulted(IF envOk THEN 0 ELSE 1)
             /\ IF made.kind = "Ok"
                THEN /\ root' = made.root
                     /\ proc' = [proc EXCEPT ![p] =
                                   [@ EXCEPT !.pc = "exec_open", !.temp = made.path]]
                     /\ UNCHANGED locks
                ELSE ErrorReturn(p, [proc[p] EXCEPT !.cache_fail = TRUE], root, "error")
    /\ UNCHANGED <<protocol, cap, now, wins>>

\* execute_and_stream, first part: create the stdout file, create the
\* stderr file, spawn the child (executor.rs:165-177); the first of them
\* that fails is returned as the error.
ExecOpen(p) ==
    /\ proc[p].pc = "exec_open"
    /\ \E fault \in IF env.faults < MaxFaults
                    THEN {"none", "stdout", "stderr", "spawn"} ELSE {"none"} :
         LET t      == Target(p)
             canOut == CanCreate(root, t, "stdout", fault # "stdout")
             r1     == IF canOut THEN create_secure_file(root, t, "stdout", now) ELSE root
             canErr == canOut /\ CanCreate(r1, t, "stderr", fault # "stderr")
             r2     == IF canErr THEN create_secure_file(r1, t, "stderr", now) ELSE r1
         IN  /\ Faulted(IF fault = "none" THEN 0 ELSE 1)
             /\ IF canOut /\ canErr /\ fault # "spawn"
                THEN /\ root' = r2
                     /\ proc' = [proc EXCEPT ![p].pc = "exec_run"]
                     /\ UNCHANGED locks
                ELSE ErrorReturn(p, [proc[p] EXCEPT !.cache_fail = ~(canOut /\ canErr)],
                                 r2, "error")
    /\ UNCHANGED <<protocol, cap, now, wins>>

\* The sets of chunks whose file write the environment may fail
BadChunks(chunks) == IF env.faults < MaxFaults THEN SUBSET (1..Len(chunks)) ELSE {{}}

\* execute_and_stream, second part: copy the child's stdout, then its
\* stderr, through the tee writers; wait for the child; collect the
\* recorded file errors (executor.rs:180-200)
ExecRun(p) ==
    /\ proc[p].pc = "exec_run"
    /\ \E run \in ChildRuns :
       \E badOut \in BadChunks(run.out), badErr \in BadChunks(run.err) :
         LET t      == Target(p)
             teeOut == TeeCopy(NewTee(proc[p].out), run.out, 1, badOut)
             teeErr == TeeCopy(NewTee(proc[p].err), run.err, 1, badErr)
             res    == [exit_code |-> run.code, stdout_error |-> teeOut.error,
                        stderr_error |-> teeErr.error]
             failed == teeOut.error \/ teeErr.error
         IN  /\ Faulted(IF failed THEN 1 ELSE 0)
             /\ root' = write_file(write_file(root, t, "stdout", teeOut.file),
                                   t, "stderr", teeErr.file)
             /\ proc' = [proc EXCEPT ![p] =
                           [@ EXCEPT !.pc = IF protocol = "atomic" /\ failed
                                            THEN "drop" ELSE "meta_create",
                                     !.result = res, !.ran = TRUE, !.child = run,
                                     !.out = teeOut.console, !.err = teeErr.console,
                                     !.cache_fail = failed,
                                     !.report = IF protocol = "atomic" /\ failed
                                                THEN "skipped" ELSE @]]
    /\ UNCHANGED <<protocol, cap, locks, now, wins>>

\* What the atomic coordinator does when a cache artifact could not be
\* written: the failure is reported, nothing is published, the buffer is
\* dropped and the child's exit code stands.
SkipPublish(p, pr) ==
    /\ proc' = [proc EXCEPT ![p] =
                  [pr EXCEPT !.pc = "drop", !.report = "skipped", !.cache_fail = TRUE]]
    /\ UNCHANGED <<root, locks>>

\* main.rs:164-177  build the Memo, serialise it, create_secure_file(&json_path)?
MetaCreate(p) ==
    /\ proc[p].pc = "meta_create"
    /\ \E envOk \in EnvChoices :
         LET pr == [proc[p] EXCEPT !.memo = Memo(proc[p].cmd, proc[p].cwd,
                                                 proc[p].result.exit_code,
                                                 now, proc[p].digest)]
         IN  /\ Faulted(IF envOk THEN 0 ELSE 1)
             /\ IF CanCreate(root, Target(p), "meta", envOk)
                THEN /\ root' = create_secure_file(root, Target(p), "meta", now)
                     /\ proc' = [proc EXCEPT ![p] = [pr EXCEPT !.pc = "meta_write"]]
                     /\ UNCHANGED locks
                ELSE IF protocol = "atomic" THEN SkipPublish(p, pr)
                ELSE ErrorReturn(p, [pr EXCEPT !.cache_fail = TRUE], root, "error")
    /\ UNCHANGED <<protocol, cap, now, wins>>

\* main.rs:178  f.write_all(json.as_bytes())?
MetaWrite(p) ==
    /\ proc[p].pc = "meta_write"
    /\ \E envOk \in EnvChoices :
         /\ Faulted(IF envOk THEN 0 ELSE 1)
         /\ IF envOk
            THEN /\ root' = write_file(root, Target(p), "meta",
                                       to_string_pretty(proc[p].memo))
                 /\ proc' = [proc EXCEPT ![p].pc =
                               IF protocol = "atomic" THEN "commit" ELSE "post_stream"]
                 /\ UNCHANGED locks
            ELSE IF protocol = "atomic" THEN SkipPublish(p, proc[p])
            ELSE ErrorReturn(p, [proc[p] EXCEPT !.cache_fail = TRUE], root, "error")
    /\ UNCHANGED <<protocol, cap, now, wins>>

\* main.rs:181-187  stream_stdout, stream_stderr from the files just
\* written, drop(lock), process::exit(result.exit_code)
PostStream(p) ==
    /\ proc[p].pc = "post_stream"
    /\ proc' = [proc EXCEPT ![p] =
                  Exited([@ EXCEPT !.out = stream_stdout(root, proc[p].digest, @),
                                   !.err = stream_stderr(root, proc[p].digest, @)],
                         proc[p].result.exit_code, "miss")]
    /\ locks' = Released(p)
    /\ UNCHANGED <<protocol, cap, root, now, wins, env>>

\* commit: commit_cache_dir(&mut temp_dir, ..) and the report of its result
Commit(p) ==
    /\ proc[p].pc = "commit"
    /\ \E o \in commit_cache_dir(root, proc[p].temp, proc[p].digest) :
         /\ root' = o.root
         /\ proc' = [proc EXCEPT ![p] =
                       [@ EXCEPT !.pc = "drop", !.committed = o.committed,
                                 !.report = IF o.ret = "true" THEN "committed"
                                            ELSE IF o.ret = "false" THEN "dropping"
                                            ELSE o.kind]]
         /\ wins' = [wins EXCEPT ![proc[p].digest] =
                       IF o.ret = "true" /\ @ < 2 THEN @ + 1 ELSE @]
    /\ UNCHANGED <<protocol, cap, locks, now, env>>

\* the TempCacheDir goes out of scope; process::exit(result.exit_code)
Drop(p) ==
    /\ proc[p].pc = "drop"
    /\ root' = drop_temp(root, proc[p].temp, proc[p].committed)
    /\ proc' = [proc EXCEPT ![p] = Exited(@, @.result.exit_code, "miss")]
    /\ UNCHANGED <<protocol, cap, locks, now, wins, env>>

(***************************************************************************)
(* Lock protocol (src/main.rs:134-208)                                     *)
(***************************************************************************)
\* try_acquire_lock: create the marker if absent
try_acquire_lock(l, d) ==
    IF d \in l THEN [kind |-> "AlreadyExists", locks |-> l]
    ELSE [kind |-> "Ok", locks |-> l \cup {d}]

\* A purge that removes the metadata record only and leaves the stream files.
purge_memo_meta_only(r, d, t) ==
    IF Exists(r, DigestName(d))
    THEN With(r, DigestName(d), [r[DigestName(d)] EXCEPT !.files.meta = NoFile])
    ELSE With(r, DigestName(d), Dir(EmptyDir, t))

\* purge_memo: whatever files of the digest exist are removed; the place of
\* the digest is left empty, ready to be written
purge_memo(r, d, t) ==
    With(r, DigestName(d), Dir(EmptyDir, t))

\* An acquire that goes on as the holder whatever try_acquire_lock returned.
AcquireBlind(p) ==
    /\ proc[p].pc = "acquire"
    /\ locks' = try_acquire_lock(locks, proc[p].digest).locks
    /\ proc' = [proc EXCEPT ![p] = [@ EXCEPT !.pc = "locked_check", !.lock = TRUE]]
    /\ UNCHANGED <<protocol, cap, root, now, wins, env>>

\* main.rs:137  match try_acquire_lock(..)
Acquire(p) ==
    /\ proc[p].pc = "acquire"
    /\ LET got == try_acquire_lock(locks, proc[p].digest)
       IN  /\ locks' = got.locks
           /\ proc' = [proc EXCEPT ![p] =
                         [@ EXCEPT !.pc = IF got.kind = "Ok" THEN "locked_check"
                                          ELSE "wait_check",
                                   !.lock = (got.kind = "Ok")]]
    /\ UNCHANGED <<protocol, cap, root, now, wins, env>>

\* A holder that goes on to write without looking at the entry again.
LockedCheckSkipped(p) ==
    /\ proc[p].pc = "locked_check"
    /\ proc' = [proc EXCEPT ![p].pc = "purge"]
    /\ UNCHANGED <<protocol, cap, root, locks, now, wins, env>>

\* main.rs:140  holder: replay if the memo became complete meanwhile
LockedCheck(p) ==
    /\ proc[p].pc = "locked_check"
    /\ proc' = [proc EXCEPT ![p].pc =
                  IF memo_complete(root, proc[p].digest) THEN "hit_meta" ELSE "purge"]
    /\ UNCHANGED <<protocol, cap, root, locks, now, wins, env>>

\* main.rs:152  purge_memo(..)
Purge(p) ==
    /\ proc[p].pc = "purge"
    /\ root' = purge_memo(root, proc[p].digest, now)
    /\ proc' = [proc EXCEPT ![p].pc = "exec_open"]
    /\ UNCHANGED <<protocol, cap, locks, now, wins, env>>

\* A wait that tests the deadline before it looks at the entry.
WaitCheckDeadlineFirst(p) ==
    /\ proc[p].pc = "wait_check"
    /\ IF now >= proc[p].deadline
       THEN /\ proc' = [proc EXCEPT ![p] = [Gone(@) EXCEPT !.exit = 1, !.outcome = "timeout"]]
            /\ UNCHANGED <<root, locks>>
       ELSE /\ proc' = [proc EXCEPT ![p].pc =
                          IF memo_complete(root, proc[p].digest) THEN "hit_meta"
                          ELSE "acquire"]
            /\ UNCHANGED <<root, locks>>
    /\ UNCHANGED <<protocol, cap, now, wins, env>>

\* A wait that does not look at the deadline.
WaitCheckForever(p) ==
    /\ proc[p].pc = "wait_check"
    /\ proc' = [proc EXCEPT ![p].pc =
                  IF memo_complete(root, proc[p].digest) THEN "hit_meta" ELSE "acquire"]
    /\ UNCHANGED <<protocol, cap, root, locks, now, wins, env>>

\* A wait that, once its deadline has passed, takes the marker for stale,
\* removes it and tries again.
WaitCheckBreaksLock(p) ==
    /\ proc[p].pc = "wait_check"
    /\ IF memo_complete(root, proc[p].digest)
       THEN /\ proc' = [proc EXCEPT ![p].pc = "hit_meta"]
            /\ UNCHANGED <<root, locks>>
       ELSE /\ proc' = [proc EXCEPT ![p].pc = "acquire"]
            /\ locks' = IF now >= proc[p].deadline THEN locks \ {proc[p].digest} ELSE locks
            /\ UNCHANGED root
    /\ UNCHANGED <<protocol, cap, now, wins, env>>

\* main.rs:189-205  marker held by another: replay if complete, fail once
\* the deadline has passed, else sleep and retry
WaitCheck(p) ==
    /\ proc[p].pc = "wait_check"
    /\ IF memo_complete(root, proc[p].digest)
       THEN /\ proc' = [proc EXCEPT ![p].pc = "hit_meta"]
            /\ UNCHANGED <<root, locks>>
       ELSE IF now >= proc[p].deadline
       THEN ErrorReturn(p, proc[p], root, "timeout")
       ELSE /\ proc' = [proc EXCEPT ![p].pc = "acquire"]
            /\ UNCHANGED <<root, locks>>
    /\ UNCHANGED <<protocol, cap, now, wins, env>>

(***************************************************************************)
(* Environment                                                             *)
(***************************************************************************)
\* abrupt termination: nothing is dropped, nothing is released
Crash(p) ==
    /\ proc[p].pc \notin {"idle", "done"}
    /\ env.faults < MaxFaults
    /\ Faulted(1)
    /\ proc' = [proc EXCEPT ![p] = [Gone(@) EXCEPT !.outcome = "crashed"]]
    /\ UNCHANGED <<protocol, cap, root, locks, now, wins>>

\* time passes: a day under the atomic protocol (the sweep's scale), a
\* second under the lock protocol (the wait's scale)
TickSecs == IF protocol = "atomic" THEN CLEANUP_AGE_SECS ELSE 1

\* a process is in the acquire loop and its wait_deadline is still ahead
Pending == \E p \in Procs : proc[p].pc \in {"acquire", "wait_check"} /\ now < proc[p].deadline

\* The clock stops at MaxTicks ticks, except that it always runs on to a
\* deadline some process is waiting for.
Tick ==
    /\ now + TickSecs <= MaxTicks * TickSecs \/ Pending
    /\ now' = now + TickSecs
    /\ UNCHANGED <<protocol, cap, root, locks, proc, wins, env>>

Common(p) ==
    \/ Start(p)
    \/ Bypass(p)
    \/ Check(p)
    \/ ReadMeta(p)
    \/ Replay(p)
    \/ ExecOpen(p)
    \/ ExecRun(p)
    \/ MetaCreate(p)
    \/ MetaWrite(p)
    \/ Crash(p)

NextAtomic ==
    \/ \E p \in Procs : Common(p)
    \/ \E p \in Procs : Sweep(p)
    \/ \E p \in Procs : Begin(p)
    \/ \E p \in Procs : Commit(p)
    \/ \E p \in Procs : Drop(p)
    \/ Tick

NextLock ==
    \/ \E p \in Procs : Common(p)
    \/ \E p \in Procs : Acquire(p)
    \/ \E p \in Procs : LockedCheck(p)
    \/ \E p \in Procs : Purge(p)
    \/ \E p \in Procs : PostStream(p)
    \/ \E p \in Procs : WaitCheck(p)
    \/ Tick

\* the atomic-publish protocol
InitAtomic == Init /\ protocol = "atomic"

SpecAtomic == InitAtomic /\ [][NextAtomic]_vars

\* the lock protocol
InitLock == Init /\ protocol = "lock"

SpecLock == InitLock /\ [][NextLock]_vars

\* the lock protocol with processes that keep running and a clock that keeps
\* advancing: a process in the acquire loop goes on trying and checking, and
\* time passes
SpecLockFair ==
    /\ InitLock
    /\ [][NextLock]_vars
    /\ WF_vars(Tick)
    /\ \A p \in Procs : WF_vars(Acquire(p)) /\ WF_vars(WaitCheck(p))

\* The sweep on its own, run by one process over every small listing of the
\* cache root: staging-named and digest-named entries, files and
\* directories, readable or not, modified at time 0 or one retention age
\* later, swept at times around the cutoff.
SweepNames ==
    {TempName(d, 1, 0) : d \in Digests} \cup {DigestName(d) : d \in Digests}

\* the three files of a complete entry
WholeFiles ==
    [meta |-> File(to_string_pretty(NoMemo)), stdout |-> File(<<1>>), stderr |-> File(<<>>)]

SweepEntries ==
    { [files |-> f, modified |-> m, is_dir |-> b, stat_ok |-> k] :
        f \in {EmptyDir, WholeFiles}, m \in {0, CLEANUP_AGE_SECS},
        b \in BOOLEAN, k \in BOOLEAN } \
    { e \in [files : {WholeFiles}, modified : {0, CLEANUP_AGE_SECS},
             is_dir : {FALSE}, stat_ok : BOOLEAN] : TRUE }

Listings == UNION { [S -> SweepEntries] : S \in SUBSET SweepNames }

SweepTimes ==
    {0, CLEANUP_AGE_SECS, 2 * CLEANUP_AGE_SECS, 2 * CLEANUP_AGE_SECS + 1}

InitSweep ==
    /\ protocol = "atomic"
    /\ root \in Listings
    /\ locks = {}
    /\ now \in SweepTimes
    /\ proc = [p \in Procs |-> IF p = 1 THEN [IdleProc EXCEPT !.pc = "sweep"]
                                ELSE IdleProc]
    /\ wins = [d \in Digests |-> 0]
    /\ env = [faults |-> MaxFaults, started |-> MaxInvocations]
    /\ cap = NoCapture

NextSweep == \E p \in Procs : Sweep(p)

SpecSweep == InitSweep /\ [][NextSweep]_vars

\* The key function on its own: two invocations whose argument vectors and
\* working directories are drawn from bounded sets, each computing its key.
\* The words include the empty word, a word with a space, and words made of
\* the characters JSON treats specially.
DigestWords ==
    { <<"e">>, <<"a">>, <<"b">>, <<"a", " ", "b">>, <<"\"", ",", "\"">>, <<"\\">>, <<>> }

DigestArgvs == UNION { [1..n -> DigestWords] : n \in 1..MaxArgs }

DigestCwds == { <<"/">>, <<"/", "a">> }

\* the second invocation is one of a few vectors, in either directory
DigestProbes ==
    { << <<"e">>, <<"a", " ", "b">> >>, << <<"e">>, <<"a">>, <<"b">> >>,
      << <<"b">>, <<"a">> >>, << <<"a">>, <<"b">> >>,
      << <<"\"", ",", "\"">> >>, << <<>>, <<>> >>, << <<"\\">>, <<>> >> }

InitDigest ==
    /\ protocol = "lock"
    /\ root = <<>>
    /\ locks = {}
    /\ now = 0
    /\ \E a1 \in DigestArgvs, a2 \in DigestProbes, c1 \in DigestCwds, c2 \in DigestCwds :
         proc = [p \in Procs |->
                   IF p = 1 THEN [IdleProc EXCEPT !.pc = "args", !.cmd = a1, !.cwd = c1]
                   ELSE IF p = 2 THEN [IdleProc EXCEPT !.pc = "args", !.cmd = a2, !.cwd = c2]
                   ELSE IdleProc]
    /\ wins = [d \in Digests |-> 0]
    /\ env = [faults |-> MaxFaults, started |-> MaxInvocations]
    /\ cap = NoCapture

\* run() computes the key of its invocation
ComputeDigest(p) ==
    /\ proc[p].pc = "args"
    /\ proc' = [proc EXCEPT ![p].pc = "check",
                            ![p].digest = compute_digest_for_args(proc[p].cmd, proc[p].cwd)]
    /\ UNCHANGED <<protocol, cap, root, locks, now, wins, env>>

NextDigest == \E p \in Procs : ComputeDigest(p)

SpecDigest == InitDigest /\ [][NextDigest]_vars

\* One capture on its own, for every child program up to MaxWrites writes.
InitCapture ==
    /\ protocol = "lock"
    /\ root = <<>>
    /\ locks = {}
    /\ now = 0
    /\ proc = [p \in Procs |-> IdleProc]
    /\ wins = [d \in Digests |-> 0]
    /\ env = [faults |-> 0, started |-> MaxInvocations]
    /\ cap \in { Capture(prog) : prog \in CapturePrograms }

NextCapture ==
    \/ ChildWrite
    \/ ChildExit
    \/ CopyStdout
    \/ CopyStderr
    \/ WaitChild
    \/ AfterCapture

SpecCapture == InitCapture /\ [][NextCapture]_vars

\* the child and the copying process are both scheduled: a step that stays
\* possible is taken
SpecCaptureFair ==
    /\ InitCapture /\ [][NextCapture]_vars
    /\ WF_vars(ChildWrite) /\ WF_vars(ChildExit)
    /\ WF_vars(CopyStdout) /\ WF_vars(CopyStderr)
    /\ WF_vars(WaitChild) /\ WF_vars(AfterCapture)

\* Writing an entry and reading it back: one process writes a record and two
\* byte strings with write_memo, another reads the entry with read_memo.
RoundTripWords ==
    { <<>>, <<"a">>, <<"\"">>, <<"\\">>, <<",">>, <<"\n">>, <<"\\", "\"">>,
      <<"a", "\"", ",", "\"", "b">> }

RoundTripArgvs == UNION { [1..n -> RoundTripWords] : n \in 1..MaxRoundTripArgs }

\* i32 exit codes: zero, small, above 127, negative, and the largest
RoundTripCodes == {0, 1, 255, 0 - 1, 0 - 128, 2147483647, 0 - 2147483647}

\* byte strings: empty, NUL, 0xFF, newline, and mixtures
RoundTripBytes == { <<>>, <<0>>, <<255>>, <<0, 255>>, <<10, 0>>, <<255, 255, 0>> }

InitRoundTrip ==
    /\ protocol = "lock"
    /\ root = <<>>
    /\ locks = {}
    /\ now = 0
    /\ \E cmd \in RoundTripArgvs, cwd \in {<<"/">>, <<"/", "\"">>},
          code \in RoundTripCodes, out \in RoundTripBytes, err \in {<<>>, <<255, 0>>} :
         proc = [p \in Procs |->
                   IF p = 1
                   THEN [IdleProc EXCEPT
                           !.pc = "write_memo", !.digest = [sha256 |-> <<"a", "b">>],
                           !.memo = Memo(cmd, cwd, code, <<"2", "Z">>, [sha256 |-> <<"a", "b">>]),
                           !.child = [out |-> out, err |-> err, code |-> code]]
                   ELSE IF p = 2
                   THEN [IdleProc EXCEPT !.pc = "read_memo",
                                         !.digest = [sha256 |-> <<"a", "b">>]]
                   ELSE IdleProc]
    /\ wins = [d \in Digests |-> 0]
    /\ env = [faults |-> MaxFaults, started |-> MaxInvocations]
    /\ cap = NoCapture

WriteMemo(p) ==
    /\ proc[p].pc = "write_memo"
    /\ root' = write_memo(root, proc[p].digest, proc[p].memo,
                          proc[p].child.out, proc[p].child.err, now)
    /\ proc' = [proc EXCEPT ![p].pc = "done", ![p].outcome = "written"]
    /\ UNCHANGED <<protocol, cap, locks, now, wins, env>>

ReadMemo(p) ==
    /\ proc[p].pc = "read_memo"
    /\ LET got == read_memo(root, proc[p].digest)
       IN  proc' = [proc EXCEPT ![p] =
                      IF got.ok
                      THEN [@ EXCEPT !.pc = "done", !.outcome = "read",
                                     !.memo = got.memo, !.out = got.stdout,
                                     !.err = got.stderr, !.exit = got.memo.exit_code]
                      ELSE [@ EXCEPT !.pc = "done", !.outcome = "error", !.exit = 1]]
    /\ UNCHANGED <<protocol, cap, root, locks, now, wins, env>>

NextRoundTrip == \E p \in Procs : WriteMemo(p) \/ ReadMemo(p)

SpecRoundTrip == InitRoundTrip /\ [][NextRoundTrip]_vars

\* either protocol, fixed at the start
Next == NextAtomic \/ NextLock

Spec == Init /\ [][Next]_vars

(***************************************************************************)
(* Properties                                                              *)
(***************************************************************************)
\* the staging directories present in the cache root
Staging(r) == { n \in DOMAIN r : n.tag = ".tmp." }

\* the metadata record stored in the entry of d
Stored(r, d) == from_str(r[DigestName(d)].files.meta.data)

\* process p has called commit_cache_dir while its staging directory existed
Committing(p) ==
    proc[p].report \in {"committed", "dropping", "DirectoryNotEmpty", "AlreadyExists"}

\* C1: for every digest at most one commit_cache_dir call has returned
\* Ok(true), and as soon as some process has called commit_cache_dir for the
\* digest with its staging directory in place, exactly one call has.
C1_ExactlyOneCommitWins ==
    \A d \in Digests :
        /\ wins[d] <= 1
        /\ (\E p \in Procs : proc[p].digest = d /\ Committing(p)) => wins[d] = 1

\* two processes raced for the same digest: one performed the move, the
\* other's call came back without it
C1_Witness ==
    \E p, q \in Procs :
        /\ p # q
        /\ proc[p].digest = proc[q].digest
        /\ proc[p].report = "committed"
        /\ proc[q].report \in {"dropping", "DirectoryNotEmpty"}

C3_Immutable ==
    [][\A d \in Digests :
          memo_complete(root, d) =>
              /\ Exists(root', DigestName(d))
              /\ root'[DigestName(d)].files = root[DigestName(d)].files]_vars

\* C4: a process that ended on the hit path exited with the exit code
\* stored in the entry's metadata, and a process that ran the command and
\* ended without being killed exited with the exit code of the child it ran.
C4_ExitCodeContract ==
    \A p \in Procs :
        proc[p].pc = "done" /\ proc[p].outcome # "crashed" =>
            /\ proc[p].outcome = "hit" =>
                 proc[p].exit = Stored(root, proc[p].digest).exit_code
            /\ proc[p].ran => proc[p].exit = proc[p].child.code

\* s is an initial part of t
IsPrefix(s, t) == Len(s) <= Len(t) /\ SubSeq(t, 1, Len(s)) = s

\* C5: a process on the miss path for which creating or writing a cache
\* file failed has still run the command, put the child's whole output on
\* its console and exited with the child's exit code.
C5_CacheFailureNonFatal ==
    \A p \in Procs :
        proc[p].pc = "done" /\ proc[p].outcome # "crashed" /\ proc[p].cache_fail =>
            /\ proc[p].ran
            /\ IsPrefix(proc[p].child.out, proc[p].out)
            /\ IsPrefix(proc[p].child.err, proc[p].err)
            /\ proc[p].exit = proc[p].child.code

\* C6: a process that completed the miss path has put on its stdout exactly
\* the child's stdout bytes and on its stderr exactly the child's stderr
\* bytes, each once and in order.
C6_MissOutputFidelity ==
    \A p \in Procs :
        proc[p].pc = "done" /\ proc[p].outcome = "miss" =>
            /\ proc[p].out = proc[p].child.out
            /\ proc[p].err = proc[p].child.err

\* C7: an invocation started when the entry of its digest was already
\* published in full stays on the hit path: it never runs the command, never
\* creates a staging directory, never commits, the entry stays in place, and
\* unless it is killed it ends as a hit.
C7_MissThenHit ==
    \A p \in Procs :
        proc[p].late =>
            /\ proc[p].pc \in {"sweep", "check", "hit_meta", "hit_stream", "done"}
            /\ ~proc[p].ran
            /\ proc[p].temp = NoTemp
            /\ proc[p].report = "none"
            /\ Whole(root, proc[p].digest)
            /\ wins[proc[p].digest] <= 1
            /\ proc[p].pc = "done" => proc[p].outcome \in {"hit", "crashed"}

\* one process completed the miss path for a digest and another one,
\* started after the entry was published, has ended as a hit
C7_Witness ==
    \E p, q \in Procs :
        /\ p # q
        /\ proc[q].outcome = "miss" /\ proc[q].ran
        /\ proc[q].digest = proc[p].digest
        /\ proc[p].late /\ proc[p].pc = "done" /\ proc[p].outcome = "hit"

RaceOver ==
    /\ env.started = NumProcs /\ env.faults = 0 /\ now = 0
    /\ \A p \in Procs : proc[p].pc = "done" /\ proc[p].ran
    /\ \A p, q \in Procs : proc[p].digest = proc[q].digest

\* C9: after such a race the cache holds the complete entry of the digest and
\* no staging directory, exactly one process reported a commit and every
\* other one reported that it discarded its buffer.
C9_RaceSettles ==
    RaceOver =>
        /\ \A p \in Procs : memo_complete(root, proc[p].digest)
        /\ Staging(root) = {}
        /\ Cardinality({p \in Procs : proc[p].report = "committed"}) = 1
        /\ \A p \in Procs : proc[p].report \in {"committed", "dropping"}

\* C10: a commit_cache_dir call made with the staging directory in place
\* while the digest directory holds a complete entry returns Ok(false) and
\* leaves the entry's three files unchanged.
C10_LosingIsNoError ==
    [][\A p \in Procs :
          /\ proc[p].pc = "commit" /\ proc'[p].pc = "drop"
          /\ Exists(root, proc[p].temp)
          /\ memo_complete(root, proc[p].digest)
          => /\ proc'[p].report = "dropping"
             /\ root'[DigestName(proc[p].digest)] = root[DigestName(proc[p].digest)]]_vars

\* C11: every step of an invocation started with MEMO_DISABLE=1 leaves the
\* cache root and the lock markers as they were; such an invocation computes
\* no digest, is only ever running the command directly or ended, and when
\* the command was run it has exited with the command's exit code.
C11_DisabledBypass ==
    [][\A p \in Procs :
          proc'[p] # proc[p] /\ proc'[p].memo_disable = "1" =>
              /\ root' = root
              /\ locks' = locks
              /\ proc'[p].pc \in {"bypass", "done"}
              /\ proc'[p].digest = NoDigest
              /\ proc'[p].temp = NoTemp
              /\ proc'[p].outcome = "bypass" =>
                    /\ proc'[p].ran
                    /\ proc'[p].exit = proc'[p].child.code
                    /\ proc'[p].out = proc'[p].child.out
                    /\ proc'[p].err = proc'[p].child.err]_vars

\* a disabled invocation has run its command and exited with a non-zero
\* code while the cache root held something
C11_Witness ==
    \E p \in Procs :
        /\ proc[p].memo_disable = "1"
        /\ proc[p].outcome = "bypass"
        /\ proc[p].exit # 0
        /\ root # <<>>

\* what the cache root holds at the addressable place of digest d
Entry(r, d) ==
    IF Exists(r, DigestName(d)) THEN [there |-> TRUE, dir |-> r[DigestName(d)]]
    ELSE [there |-> FALSE, dir |-> Dir(EmptyDir, 0)]

\* process p owns a staging directory and has not yet had a commit performed
Staged(p) ==
    proc[p].pc \in {"exec_open", "exec_run", "meta_create", "meta_write", "commit"}

\* C12: a process that owns a staging directory and has not committed never
\* creates or alters a digest directory by any step other than the commit
\* itself; when it terminates abruptly the cache root, its staging directory
\* included, stays as it is; and a sweep removes every staging directory
\* whose modification time is older than the retention age.
C12_CrashOrphan ==
    [][\A p \in Procs :
          /\ (/\ proc'[p] # proc[p] /\ Staged(p)
              /\ ~(proc[p].pc = "commit" /\ proc'[p].pc = "drop"))
             => \A d \in Digests : Entry(root', d) = Entry(root, d)
          /\ (Staged(p) /\ proc'[p].outcome = "crashed")
             => root' = root
          /\ (proc[p].pc = "sweep" /\ proc'[p].pc = "check")
             => \A n \in Staging(root) :
                   root[n].modified < now - CLEANUP_AGE_SECS => ~Exists(root', n)]_vars

\* a process was killed after it ran the command and before any commit, and
\* later no staging directory is left, while the digest has no entry
C12_Witness ==
    \E p \in Procs :
        /\ proc[p].outcome = "crashed" /\ proc[p].ran /\ proc[p].report = "none"
        /\ Staging(root) = {}
        /\ ~Exists(root, DigestName(proc[p].digest))

\* C13: a sweep removes every staging directory whose modification time can
\* be read and is before the cutoff (now - 24h), and leaves in place and
\* unchanged every staging directory whose modification time is at or after
\* the cutoff or cannot be read.
C13_SweepAgeRule ==
    [][\A p \in Procs :
          proc[p].pc = "sweep" /\ proc'[p].pc = "check" =>
              \A n \in Staging(root) :
                  root[n].is_dir =>
                      IF root[n].stat_ok /\ root[n].modified < now - CLEANUP_AGE_SECS
                      THEN ~Exists(root', n)
                      ELSE Exists(root', n) /\ root'[n] = root[n]]_vars

\* a sweep has run and left a staging directory that is old but unreadable
\* next to one modified exactly at the cutoff
C13_Witness ==
    /\ \E p \in Procs : proc[p].pc = "check"
    /\ \E n, m \in Staging(root) :
         /\ root[n].is_dir /\ ~root[n].stat_ok
         /\ root[n].modified < now - CLEANUP_AGE_SECS
         /\ root[m].is_dir /\ root[m].stat_ok
         /\ root[m].modified = now - CLEANUP_AGE_SECS

\* the processes that hold the marker of digest d
Holders(d) == { p \in Procs : proc[p].lock /\ proc[p].digest = d }

\* the processes that are executing the command for digest d or writing its
\* stdout, stderr and metadata files
Writers(d) ==
    { p \in Procs :
        /\ proc[p].digest = d
        /\ proc[p].pc \in {"purge", "exec_open", "exec_run", "meta_create",
                            "meta_write", "post_stream"} }

\* C14: under the lock protocol, for every digest at most one process holds
\* the marker, the marker exists while it is held, and at most one process is
\* executing the command for the digest or writing its files, namely the
\* holder.
C14_LockMutualExclusion ==
    \A d \in Digests :
        /\ Cardinality(Holders(d)) <= 1
        /\ Holders(d) # {} => d \in locks
        /\ Cardinality(Writers(d)) <= 1
        /\ Writers(d) \subseteq Holders(d)

\* one process runs the command as the holder while another process of the
\* same digest has found the marker taken
C14_Witness ==
    \E p, q \in Procs :
        /\ p # q /\ proc[p].digest = proc[q].digest
        /\ proc[p].lock /\ proc[p].pc = "exec_run"
        /\ proc[q].pc = "wait_check"

\* process p is in the acquire loop: trying the marker or having found it taken
Waiting(p) == proc[p].pc \in {"acquire", "wait_check"}

\* C15: a process in the acquire loop always leaves it: by replaying a
\* complete entry, by acquiring the marker, or with the timeout error, even
\* when the marker is never released.
C15_BoundedLockWait ==
    \A p \in Procs : Waiting(p) ~> ~Waiting(p)

\* a process ended with the timeout error while the marker, held by no
\* process any more, is still there
C15_Witness ==
    \E p \in Procs :
        /\ proc[p].outcome = "timeout"
        /\ proc[p].digest \in locks
        /\ \A q \in Procs : ~proc[q].lock

\* C16: a process gets the timeout error only in a step taken after a failed
\* acquire, with its deadline passed and the entry found incomplete in that
\* step; a process that, after a failed acquire, finds the entry complete goes
\* on to replay it, whether or not its deadline has passed.
C16_TimeoutOnlyWhenIncomplete ==
    [][\A p \in Procs :
          /\ (proc'[p].outcome = "timeout" /\ proc[p].outcome # "timeout")
             => /\ proc[p].pc = "wait_check"
                /\ now >= proc[p].deadline
                /\ ~memo_complete(root, proc[p].digest)
          /\ (/\ proc[p].pc = "wait_check" /\ proc'[p] # proc[p]
              /\ memo_complete(root, proc[p].digest))
             => proc'[p].pc = "hit_meta" \/ proc'[p].outcome = "crashed"]_vars

\* a process that found the marker taken is on its way to replay the entry
\* although its deadline has passed
C16_Witness ==
    \E p \in Procs :
        /\ proc[p].pc = "hit_meta" /\ ~proc[p].lock
        /\ proc[p].deadline > 0 /\ now >= proc[p].deadline
        /\ memo_complete(root, proc[p].digest)

\* C17: a step in which a process holding the marker ends, other than by
\* being killed, leaves no marker for its digest: after a replay, after a
\* write, and after an error from the execution or from writing an artifact.
C17_LockReleasedOnExit ==
    [][\A p \in Procs :
          (proc[p].lock /\ proc'[p].pc = "done" /\ proc'[p].outcome # "crashed")
          => proc[p].digest \notin locks']_vars

\* a holder has ended with an error from writing an artifact, and the marker
\* of its digest is gone
C17_Witness ==
    \E p \in Procs :
        /\ protocol = "lock" /\ proc[p].pc = "done"
        /\ proc[p].outcome = "error" /\ proc[p].cache_fail
        /\ proc[p].digest # NoDigest /\ proc[p].digest \notin locks

\* C18: two invocations that have computed their keys have the same key
\* exactly when their argument vectors are equal element for element, in
\* order, and their working directories are equal.
C18_KeyInjective ==
    \A p, q \in Procs :
        (proc[p].pc = "check" /\ proc[q].pc = "check" /\ proc[p].cmd # <<>> /\ proc[q].cmd # <<>>)
        => ((proc[p].digest = proc[q].digest)
            <=> (proc[p].cmd = proc[q].cmd /\ proc[p].cwd = proc[q].cwd))

\* both keys are computed for ['e', 'a b'] and ['e', 'a', 'b'] in the same
\* directory, and they differ
C18_Witness ==
    /\ proc[1].pc = "check" /\ proc[2].pc = "check"
    /\ proc[1].cmd = << <<"e">>, <<"a", " ", "b">> >>
    /\ proc[2].cmd = << <<"e">>, <<"a">>, <<"b">> >>
    /\ proc[1].cwd = proc[2].cwd
    /\ proc[1].digest # proc[2].digest

\* C19: whatever the child writes to its two pipes before it exits, while no
\* write of the capture fails execute_and_stream comes to return.
C19_NoPipeDeadlock ==
    <>(cap.phase \notin Capturing \/ env.faults > 0)

\* C20: the step in which a console write fails ends execute_and_stream with
\* an error, and the caller never goes on to publish after a console write
\* has failed.
C20_ConsoleFailureFatal ==
    [][/\ (cap'.console_failed /\ ~cap.console_failed)
          => (cap'.phase = "returned" /\ cap'.returned = "Err")
       /\ cap'.phase = "publish" => ~cap'.console_failed]_vars

\* the copy loop of fd takes a chunk from its pipe in this step
TeeStep(fd) == cap'.pipe[fd] # cap.pipe[fd] /\ cap'.tee[fd] # cap.tee[fd]

\* the fault of this step, if any, is a console write that fails
ConsoleFault == env'.faults > env.faults /\ cap'.file_failures = cap.file_failures

\* C21: when the file write of a chunk fails, the chunk still goes to the
\* console and the copy goes on; every chunk whose console write works
\* reaches the console, whatever happened to the file before; a stored file
\* error is never replaced; and execute_and_stream reports an error path for
\* a stream exactly when a file write of that stream failed.
C21_FileFailureCaptured ==
    [][\A fd \in {"stdout", "stderr"} :
          /\ (TeeStep(fd) /\ cap'.file_failures[fd] > cap.file_failures[fd])
             => /\ cap'.tee[fd].console = Append(cap.tee[fd].console, Head(cap.pipe[fd]))
                /\ cap'.tee[fd].file = cap.tee[fd].file
                /\ cap'.phase = cap.phase
                /\ cap'.tee[fd].error
          /\ (TeeStep(fd) /\ ~ConsoleFault)
             => cap'.tee[fd].console = Append(cap.tee[fd].console, Head(cap.pipe[fd]))
          /\ cap.tee[fd].error
             => cap'.tee[fd].stored = cap.tee[fd].stored /\ cap'.tee[fd].error
          /\ (cap'.phase = "returned" /\ cap'.returned = "Ok")
             => /\ cap'.result.stdout_error <=> cap'.file_failures.stdout > 0
                /\ cap'.result.stderr_error <=> cap'.file_failures.stderr > 0]_vars

\* two file writes of one stream failed, a chunk written after the first
\* failure is on the console, the error stored is the first one, and
\* execute_and_stream has returned the error path of that stream
C21_Witness ==
    \E fd \in {"stdout", "stderr"} :
        /\ cap.phase = "returned" /\ cap.returned = "Ok"
        /\ cap.file_failures[fd] = 2
        /\ Len(cap.tee[fd].console) = 3 /\ Len(cap.tee[fd].file) = 1
        /\ cap.tee[fd].stored = cap.tee[fd].console[1]
        /\ IF fd = "stdout" THEN cap.result.stdout_error ELSE cap.result.stderr_error

\* C22: an invocation whose cache root cannot be resolved or created ends in
\* that very step with a nonzero exit code, without having run the command,
\* written anything to its console or touched the cache root or a marker;
\* and a process that has run the command did not end with a setup error.
C22_SetupFailurePrecedesExecution ==
    [][\A p \in Procs :
          /\ (proc'[p].outcome = "setup_error" /\ proc'[p] # proc[p])
             => /\ proc[p].pc \in {"idle", "done"}
                /\ proc'[p].pc = "done" /\ proc'[p].exit # 0
                /\ ~proc'[p].ran
                /\ proc'[p].out = <<>> /\ proc'[p].err = <<>>
                /\ root' = root /\ locks' = locks
          /\ proc'[p].ran => proc'[p].outcome # "setup_error"]_vars

\* an invocation has ended with a setup error while another one had run the
\* command
C22_Witness ==
    \E p, q \in Procs :
        /\ proc[p].pc = "done" /\ proc[p].outcome = "setup_error" /\ ~proc[p].ran
        /\ proc[q].ran

\* process p holds a buffer that it has not committed
LiveBuffer(p) == proc[p].temp # NoTemp /\ ~proc[p].committed

\* C23: two buffers that are live at the same time have different paths; the
\* directory handed out by create_temp_cache_dir did not exist before the
\* call, is new and empty after it, and is the buffer of no other process;
\* and when the name it would use is taken the call fails, the caller gets no
\* buffer and the directory of that name stays as it is.
C23_StagingExclusive ==
    [][/\ \A p, q \in Procs :
            (p # q /\ LiveBuffer(p) /\ LiveBuffer(q)) => proc[p].temp # proc[q].temp
       /\ \A p \in Procs :
            /\ (proc[p].temp = NoTemp /\ proc'[p].temp # NoTemp)
               => /\ ~Exists(root, proc'[p].temp)
                  /\ Exists(root', proc'[p].temp)
                  /\ IsEmptyDir(root'[proc'[p].temp].files)
                  /\ \A q \in Procs \ {p} : proc[q].temp # proc'[p].temp
            /\ (/\ proc[p].pc = "begin" /\ proc'[p] # proc[p]
                /\ Exists(root, TempName(proc[p].digest, p, now)))
               => /\ proc'[p].temp = NoTemp /\ proc'[p].pc = "done"
                  /\ proc'[p].outcome \in {"error", "crashed"}
                  /\ root' = root]_vars

\* an invocation found the name of its staging directory taken, by the
\* orphan of a killed process of the same pid and time, and ended with an
\* error without running the command; the orphan is still there
C23_Witness ==
    \E p \in Procs :
        /\ protocol = "atomic" /\ proc[p].pc = "done"
        /\ proc[p].outcome = "error" /\ proc[p].cache_fail /\ ~proc[p].ran
        /\ Exists(root, TempName(proc[p].digest, p, now))

\* C24: invocations that differ in argv or cwd have different digests and
\* different entry directories, and a step of a process leaves the entry of
\* every digest other than its own as it is: there or not, with the same
\* files and the same bytes.
C24_EntriesIndependent ==
    [][/\ \A p, q \in Procs :
            (/\ proc[p].digest # NoDigest /\ proc[q].digest # NoDigest
             /\ (proc[p].cmd # proc[q].cmd \/ proc[p].cwd # proc[q].cwd))
            => /\ proc[p].digest # proc[q].digest
               /\ DigestName(proc[p].digest) # DigestName(proc[q].digest)
       /\ \A p \in Procs : \A d \in Digests :
            (proc'[p] # proc[p] /\ d # proc[p].digest /\ d # proc'[p].digest)
            => Entry(root', d) = Entry(root, d)]_vars

\* two invocations with different arguments have each published an entry,
\* and both entries are complete
C24_Witness ==
    \E p, q \in Procs :
        /\ proc[p].digest # proc[q].digest
        /\ proc[p].pc = "done" /\ proc[p].outcome = "miss"
        /\ proc[q].pc = "done" /\ proc[q].outcome = "miss"
        /\ Whole(root, proc[p].digest) /\ Whole(root, proc[q].digest)

\* C25: what read_memo returns for an entry written by write_memo is the
\* record that was written, exit code included, and the stdout and stderr
\* bytes that were written.
C25_EntryRoundTrip ==
    \A w, r \in Procs :
        (proc[w].outcome = "written" /\ proc[r].outcome = "read")
        => /\ proc[r].memo = proc[w].memo
           /\ proc[r].exit = proc[w].memo.exit_code
           /\ proc[r].out = proc[w].child.out
           /\ proc[r].err = proc[w].child.err

\* an entry with a negative exit code, an argument holding a quote and a
\* comma, and stdout bytes NUL and 0xFF has been written and read back
C25_Witness ==
    \E w, r \in Procs :
        /\ proc[w].outcome = "written" /\ proc[r].outcome = "read"
        /\ proc[w].memo.exit_code < 0 /\ proc[r].exit < 0
        /\ proc[w].memo.cmd[1] = <<"a", "\"", ",", "\"", "b">>
        /\ proc[w].child.out = <<0, 255>> /\ proc[r].out = <<0, 255>>

\* C26: a process that found the entry complete reads a metadata record that
\* parses, from an entry that is there in full, and replays from an entry
\* that is there in full, whatever the other processes are doing.
C26_ReadersNeedNoLock ==
    [][\A p \in Procs :
          /\ (proc[p].pc = "hit_meta" /\ proc'[p] # proc[p])
             => /\ Whole(root, proc[p].digest)
                /\ proc'[p].pc = "hit_stream" \/ proc'[p].outcome = "crashed"
          /\ (proc[p].pc = "hit_stream" /\ proc'[p] # proc[p])
             => /\ Whole(root, proc[p].digest)
                /\ proc'[p].outcome \in {"hit", "crashed"}]_vars

\* every process slot holds an invocation of one and the same digest, and
\* nothing has failed, nobody was killed and nobody timed out
CleanRace ==
    /\ env.faults = 0
    /\ \A p \in Procs : proc[p].digest # NoDigest /\ proc[p].outcome # "timeout"
    /\ \A p, q \in Procs : proc[p].digest = proc[q].digest

Runners == {p \in Procs : proc[p].ran}

\* C27: in such a race under the lock protocol at most one process has run
\* the command, exactly one once all have ended; and a process that holds
\* the marker and found the entry complete replays it without running the
\* command and without changing the cache root.
C27_LockRunsOnce ==
    [][/\ CleanRace' =>
            /\ Cardinality(Runners') <= 1
            /\ (\A p \in Procs : proc'[p].pc = "done") => Cardinality(Runners') = 1
       /\ \A p \in Procs :
            (/\ proc[p].lock /\ proc[p].pc \in {"hit_meta", "hit_stream"}
             /\ proc'[p] # proc[p])
            => /\ root' = root
               /\ ~proc'[p].ran
               /\ proc'[p].pc \in {"hit_stream", "done"}]_vars

\* one process ran the command and published; the other, having waited,
\* acquired the marker, found the entry complete and is about to replay
C27_Witness ==
    /\ CleanRace
    /\ \E p, q \in Procs :
         /\ proc[q].pc = "done" /\ proc[q].outcome = "miss" /\ proc[q].ran
         /\ proc[p].lock /\ proc[p].pc = "hit_stream" /\ ~proc[p].ran

\* C28: an invocation that is not disabled makes every step that follows its
\* startup (the completeness check and whatever reads or writes the cache
\* after it) with exactly one sweep behind it, and never sweeps twice.
C28_SweepAtStartup ==
    [][\A p \in Procs :
          /\ proc'[p].sweeps <= 1
          /\ (/\ proc[p].pc \notin {"idle", "done", "bypass", "sweep"}
              /\ proc'[p] # proc[p] /\ proc'[p].outcome # "crashed")
             => proc[p].sweeps = 1]_vars

\* C29: while a process holds a buffer it has not committed, no step of
\* another process (a sweep in particular) and no passing of time removes or
\* alters its staging directory.
C29_SweepSparesLiveBuffers ==
    [][\A p \in Procs :
          (LiveBuffer(p) /\ proc'[p] = proc[p] /\ Exists(root, proc[p].temp))
          => /\ Exists(root', proc[p].temp)
             /\ root'[proc[p].temp] = root[proc[p].temp]]_vars

\* C30: a sweep creates nothing and modifies nothing; whatever it deletes is
\* a directory with a staging name; so digest-named directories and entries
\* that are not directories stay as they are, and the same digests have a
\* complete entry before and after.
C30_SweepFrame ==
    [][\A p \in Procs :
          (proc[p].pc = "sweep" /\ proc'[p].pc = "check") =>
              /\ \A n \in DOMAIN root' : Exists(root, n) /\ root'[n] = root[n]
              /\ \A n \in DOMAIN root \ DOMAIN root' : n.tag = ".tmp." /\ root[n].is_dir
              /\ \A d \in Digests :
                   /\ memo_complete(root', d) <=> memo_complete(root, d)
                   /\ Whole(root', d) <=> Whole(root, d)]_vars

\* a sweep has run and left a complete entry whose directory is older than
\* the cutoff, next to an old entry with a staging name that is no directory
C30_Witness ==
    /\ \E p \in Procs : proc[p].pc = "check" /\ proc[p].sweeps = 1
    /\ \E d \in Digests :
         /\ Whole(root, d) /\ root[DigestName(d)].is_dir /\ root[DigestName(d)].stat_ok
         /\ root[DigestName(d)].modified < now - CLEANUP_AGE_SECS
    /\ \E n \in Staging(root) :
         ~root[n].is_dir /\ root[n].stat_ok /\ root[n].modified < now - CLEANUP_AGE_SECS

(***************************************************************************)
(* Lock protocol: purge, stuck marker, metadata, failed capture            *)
(***************************************************************************)
\* the files of the holder's digest, as they are in the cache root
HolderFiles(p) == root[DigestName(proc[p].digest)].files

\* C31: under the lock protocol a holder that found the entry incomplete
\* starts from an empty place: when it is about to create the stream files
\* no file of the digest exists, when the child is about to run both stream
\* files are the empty ones it created and there is no metadata file, and
\* when it has captured the child without a file failure the stream files
\* hold the child's output and nothing else.
C31_PurgeBeforeWrite ==
    \A p \in Procs :
        protocol = "lock" /\ proc[p].lock =>
            /\ proc[p].pc = "exec_open" =>
                   /\ Exists(root, DigestName(proc[p].digest))
                   /\ IsEmptyDir(HolderFiles(p))
            /\ proc[p].pc = "exec_run" =>
                   /\ HolderFiles(p).stdout = File(<<>>)
                   /\ HolderFiles(p).stderr = File(<<>>)
                   /\ ~HolderFiles(p).meta.exists
            /\ proc[p].pc = "meta_create" => ~HolderFiles(p).meta.exists
            /\ proc[p].pc \in {"meta_create", "meta_write", "post_stream"}
                  /\ ~proc[p].cache_fail =>
                   /\ HolderFiles(p).stdout = File(proc[p].child.out)
                   /\ HolderFiles(p).stderr = File(proc[p].child.err)

\* an earlier holder ran the command and failed before the metadata file
\* existed, leaving both stream files behind; a later holder of the same
\* digest has purged them, run the command and completed the entry with its
\* own output
C31_Witness ==
    \E p, q \in Procs :
        /\ protocol = "lock" /\ p # q
        /\ proc[q].digest = proc[p].digest
        /\ proc[q].outcome = "error" /\ proc[q].ran /\ proc[q].cache_fail
        /\ proc[p].outcome = "miss" /\ proc[p].ran
        /\ proc[p].child # proc[q].child
        /\ Whole(root, proc[p].digest)
        /\ HolderFiles(p).stdout = File(proc[p].child.out)

\* the marker of digest d is there and no running process holds it: its
\* holder terminated abruptly
StuckMarker(d) == d \in locks /\ Holders(d) = {}

\* process p has not acquired the marker of its digest: it is at the first
\* check of the entry or in the acquire loop
Unlocked(p) == proc[p].pc \in {"check", "acquire", "wait_check"}

\* C32: under the lock protocol a marker whose holder terminated abruptly
\* is never removed; while it is there and the entry is incomplete, an
\* invocation of that digest never executes the command and, when it ends,
\* ends with the lock-timeout error (unless it is itself killed); and every
\* such invocation in the acquire loop does end that way.
C32_StuckMarker ==
    /\ [][\A d \in Digests : StuckMarker(d) => StuckMarker(d)']_vars
    /\ [][\A p \in Procs :
            /\ protocol = "lock" /\ Unlocked(p)
            /\ StuckMarker(proc[p].digest)
            /\ ~memo_complete(root, proc[p].digest)
            => /\ proc'[p].ran = proc[p].ran
               /\ ~memo_complete(root', proc[p].digest)
               /\ proc'[p].pc = "done" =>
                      /\ proc'[p].outcome \in {"timeout", "crashed"}
                      /\ proc'[p].outcome = "timeout" => proc'[p].exit = 1]_vars
    /\ \A p \in Procs :
          (Waiting(p) /\ StuckMarker(proc[p].digest)
              /\ ~memo_complete(root, proc[p].digest))
          ~> (proc[p].pc = "done" /\ proc[p].outcome \in {"timeout", "crashed"}
              /\ ~proc[p].ran)

\* a holder was killed before the entry was complete, and another
\* invocation of the same digest has ended with the timeout error without
\* running the command, the marker still in place
C32_Witness ==
    \E p, q \in Procs :
        /\ protocol = "lock" /\ p # q
        /\ proc[q].outcome = "crashed" /\ proc[q].digest = proc[p].digest
        /\ StuckMarker(proc[p].digest)
        /\ ~memo_complete(root, proc[p].digest)
        /\ proc[p].outcome = "timeout" /\ proc[p].exit = 1 /\ ~proc[p].ran

\* the metadata file of digest d exists in the cache root r
HasMeta(r, d) == Exists(r, DigestName(d)) /\ r[DigestName(d)].files.meta.exists

\* C33: under the lock protocol the metadata file of a digest comes into
\* existence only in a step of the holder that has run the command to its
\* exit, with both stream files already there; while the metadata file
\* exists no stream file of the digest changes; and the record written into
\* it carries the exit code of the child, the digest it is stored under and
\* the argv of the invocation.
C33_MetadataLast ==
    [][\A d \in Digests :
         /\ ~HasMeta(root, d) /\ HasMeta(root', d) =>
               \E p \in Procs :
                  /\ proc[p].digest = d /\ proc[p].lock
                  /\ proc[p].pc = "meta_create" /\ proc[p].ran
                  /\ root[DigestName(d)].files.stdout.exists
                  /\ root[DigestName(d)].files.stderr.exists
                  /\ root'[DigestName(d)].files.meta.data = <<>>
         /\ HasMeta(root, d) /\ HasMeta(root', d) =>
               /\ root'[DigestName(d)].files.stdout = root[DigestName(d)].files.stdout
               /\ root'[DigestName(d)].files.stderr = root[DigestName(d)].files.stderr
         /\ HasMeta(root, d) /\ HasMeta(root', d)
               /\ root'[DigestName(d)].files.meta # root[DigestName(d)].files.meta =>
               \E p \in Procs :
                  /\ proc[p].digest = d /\ proc[p].pc = "meta_write" /\ proc[p].ran
                  /\ root[DigestName(d)].files.meta.data = <<>>
                  /\ parses(root'[DigestName(d)].files.meta.data)
                  /\ LET m == from_str(root'[DigestName(d)].files.meta.data)
                     IN  /\ m.exit_code = proc[p].child.code
                         /\ m.digest = d
                         /\ m.cmd = proc[p].cmd
                         /\ d = compute_digest_for_args(m.cmd, m.cwd)]_vars

\* a holder has run a command that exited with a non-zero code and has
\* written the metadata: the record holds that code, the digest and the argv
C33_Witness ==
    \E p \in Procs :
        /\ protocol = "lock" /\ proc[p].pc = "post_stream"
        /\ proc[p].child.code # 0 /\ proc[p].cmd # <<>>
        /\ parses(HolderFiles(p).meta.data)
        /\ from_str(HolderFiles(p).meta.data).exit_code = proc[p].child.code
        /\ from_str(HolderFiles(p).meta.data).cmd = proc[p].cmd
        /\ HolderFiles(p).stdout = File(proc[p].child.out)

\* the capture of process p recorded a file-write failure
\* (ExecutionResult.stdout_error or .stderr_error is set)
CaptureFailed(p) == proc[p].result.stdout_error \/ proc[p].result.stderr_error

\* C34: under the lock protocol an invocation whose capture recorded a
\* file-write failure leaves no complete entry for its digest, and what a
\* hit has replayed is the whole output of some run of the command.
C34_NoTruncatedEntry ==
    /\ \A p \in Procs :
          protocol = "lock" /\ CaptureFailed(p) =>
              ~memo_complete(root, proc[p].digest)
    /\ \A q \in Procs :
          protocol = "lock" /\ proc[q].outcome = "hit" =>
              \E run \in ChildRuns : proc[q].out = run.out /\ proc[q].err = run.err

\* the step in which execute_and_stream returns the spawn error to process
\* p: both stream files could be created, the command could not be started
SpawnFailed(p) ==
    /\ proc[p].pc = "exec_open" /\ proc'[p].pc = "done"
    /\ proc'[p].outcome = "error" /\ ~proc'[p].cache_fail

\* C35: under the lock protocol, when the command cannot be spawned the
\* invocation ends with status 1 without having run anything or written
\* anything to its console, its marker is gone, and the two stream files it
\* created are left without a metadata file, so the entry of the digest is
\* not complete.
C35_FailedSpawn ==
    [][\A p \in Procs :
         protocol = "lock" /\ SpawnFailed(p) =>
             /\ proc'[p].exit = 1 /\ ~proc'[p].ran
             /\ proc'[p].out = <<>> /\ proc'[p].err = <<>>
             /\ ~proc'[p].lock /\ proc[p].digest \notin locks'
             /\ ~memo_complete(root', proc[p].digest)
             /\ ~HasMeta(root', proc[p].digest)
             /\ root'[DigestName(proc[p].digest)].files.stdout = File(<<>>)
             /\ root'[DigestName(proc[p].digest)].files.stderr = File(<<>>)]_vars

\* an invocation has ended on a spawn failure: status 1, nothing run, the
\* two empty stream files left behind without metadata, no marker
C35_Witness ==
    \E p \in Procs :
        /\ protocol = "lock" /\ proc[p].pc = "done"
        /\ proc[p].outcome = "error" /\ proc[p].exit = 1
        /\ ~proc[p].ran /\ ~proc[p].cache_fail
        /\ proc[p].digest \notin locks
        /\ Exists(root, DigestName(proc[p].digest))
        /\ HolderFiles(p).stdout = File(<<>>) /\ HolderFiles(p).stderr = File(<<>>)
        /\ ~HolderFiles(p).meta.exists
        /\ ~memo_complete(root, proc[p].digest)

(***************************************************************************)
(* Atomic protocol: the staging buffer at its drop                         *)
(***************************************************************************)
\* the step in which the TempCacheDir of process p is dropped: the process
\* ends by a return or an exit, not by being killed
Dropped(p) ==
    /\ protocol = "atomic" /\ proc[p].temp # NoTemp
    /\ proc[p].pc # "done" /\ proc'[p].pc = "done"
    /\ proc'[p].outcome # "crashed"

\* C36: when a staging buffer that has not won its commit is dropped --
\* commit_cache_dir returned Ok(false), or an error, or the invocation
\* returned before the commit -- its staging directory, with every file in
\* it, is no longer in the cache root, and no other entry of the root is
\* touched.
C36_DiscardOnDrop ==
    [][\A p \in Procs :
         Dropped(p) /\ ~proc[p].committed =>
             /\ ~Exists(root', proc[p].temp)
             /\ \A n \in DOMAIN root \ {proc[p].temp} :
                    Exists(root', n) /\ root'[n] = root[n]]_vars

\* a process lost its commit to another one of the same digest and has
\* ended: the entry is there and nothing staged by that process is left
C36_Witness ==
    \E p \in Procs :
        /\ protocol = "atomic" /\ proc[p].pc = "done"
        /\ proc[p].report = "dropping" /\ proc[p].outcome = "miss"
        /\ Whole(root, proc[p].digest)
        /\ \A n \in DOMAIN root : ~(n.tag = ".tmp." /\ n.pid = p)

(***************************************************************************)
(* The completeness test                                                   *)
(***************************************************************************)
\* the files of digest d that exist in the cache root
Present(d) ==
    IF Exists(root, DigestName(d))
    THEN { f \in {"meta", "stdout", "stderr"} : root[DigestName(d)].files[f].exists }
    ELSE {}

\* C37: memo_complete is true of a digest exactly when its three files
\* exist; an invocation at the check of main.rs:113 goes to the replay when
\* they do and, when one of them is missing, goes on to the miss path
\* (staging under the atomic protocol, the marker under the lock protocol)
\* without ending and without changing the cache root.
C37_CompletenessTest ==
    [][/\ \A d \in Digests :
            memo_complete(root, d) <=> Cardinality(Present(d)) = 3
       /\ \A p \in Procs :
            proc[p].pc = "check" /\ proc'[p] # proc[p] /\ proc'[p].outcome # "crashed" =>
               /\ root' = root
               /\ Cardinality(Present(proc[p].digest)) = 3 => proc'[p].pc = "hit_meta"
               /\ Cardinality(Present(proc[p].digest)) < 3 =>
                      /\ proc'[p].pc = IF protocol = "atomic" THEN "begin" ELSE "acquire"
                      /\ proc'[p].outcome = "none"]_vars

\* with no other invocation running, an invocation has found an entry with
\* both stream files and no metadata file and has gone on to the miss path
C37_Witness ==
    \E p \in Procs :
        /\ proc[p].pc = "acquire" /\ ~proc[p].lock /\ ~proc[p].ran
        /\ Present(proc[p].digest) = {"stdout", "stderr"}
        /\ proc[p].digest \notin locks
        /\ \A q \in Procs \ {p} : proc[q].pc = "done" /\ proc[q].outcome = "error"

\* C38: in the step in which commit_cache_dir returns true the buffer
\* becomes committed and the digest directory holds the three files the
\* process staged; the buffer is committed only that way; and the drop of a
\* committed buffer changes nothing in the cache root, the digest directory
\* and its three files staying in place.
C38_CommittedSurvivesDrop ==
    [][\A p \in Procs :
         /\ proc[p].pc = "commit" /\ proc'[p].report = "committed" =>
               /\ proc'[p].committed
               /\ memo_complete(root', proc[p].digest)
               /\ root'[DigestName(proc[p].digest)] = root[proc[p].temp]
         /\ proc'[p].committed /\ ~proc[p].committed =>
               proc[p].pc = "commit" /\ proc'[p].report = "committed"
         /\ Dropped(p) /\ proc[p].committed =>
               /\ root' = root
               /\ memo_complete(root', proc[p].digest)
               /\ proc'[p].outcome = "miss"]_vars

\* a process has committed its buffer and ended: the entry it staged is in
\* place, whole, with the output of its child
C38_Witness ==
    \E p \in Procs :
        /\ protocol = "atomic" /\ proc[p].pc = "done"
        /\ proc[p].report = "committed" /\ proc[p].outcome = "miss"
        /\ Whole(root, proc[p].digest)
        /\ HolderFiles(p).stdout = File(proc[p].child.out)
        /\ HolderFiles(p).stderr = File(proc[p].child.err)

====
